---- MODULE Spec2Model ----
(***************************************************************************)
(* Ombrellone API (src/main.py, src/schemas.py): the seeded catalogue of   *)
(* one beach club and its umbrellas, the availability report, the price    *)
(* quote and the booking handler, over a document store with the three     *)
(* collections "beachclub", "umbrella" and "booking".                      *)
(*                                                                         *)
(* Text values whose form matters are modelled by their form:              *)
(*   an id string is  [kind, oid, upper]: kind "hex" is the 24 hex digits  *)
(*     of ObjectId oid written in lower case (upper = FALSE) or in upper   *)
(*     case (upper = TRUE); kind "text" is any string that is no ObjectId; *)
(*   a date string is [fmt, day]: fmt "ext" is "2024-07-dd", fmt "basic"   *)
(*     is "202407dd", fmt "text" is a string that is no ISO date.          *)
(* Prices are whole numbers of euros (the seed uses 3.0, 5.0, 12.0 and     *)
(* 15 + 2*row, 45 + 5*row, whose sums are exact as floats).                *)
(***************************************************************************)
EXTENDS Integers, Sequences, FiniteSets, TLC

VARIABLES
    beachclub,  \* collection "beachclub": sequence of documents, in insertion order
    umbrella,   \* collection "umbrella"
    booking,    \* collection "booking"
    nextOid,    \* the next ObjectId the store generates
    resp,       \* the response of the last handler that ran
    pc,         \* per worker: where its create_booking stands
    preq,       \* per worker: the BookingRequest it is handling
    pquote      \* per worker: the quote it obtained

vars == <<beachclub, umbrella, booking, nextOid, resp, pc, preq, pquote>>

store == <<beachclub, umbrella, booking, nextOid>>

workers == <<pc, preq, pquote>>

(***************************************************************************)
(* Bounds of the model.                                                    *)
(***************************************************************************)
MaxBookings == 2

MaxServices == 2

(***************************************************************************)
(* Program constants.                                                      *)
(***************************************************************************)
Rows == 4

Cols == 8

FullDay == "Full Day"

ActiveStatuses == {"pending", "confirmed"}

(***************************************************************************)
(* Conversions.                                                            *)
(***************************************************************************)
\* str(oid): the 24 lower-case hex digits of an ObjectId.
StrOid(oid) == [kind |-> "hex", oid |-> oid, upper |-> FALSE]

\* bson.ObjectId(s) accepts 24 hex digits of either case, and raises otherwise.
ObjectIdOk(s) == s.kind = "hex"

ObjectId(s) == s.oid

\* date.fromisoformat(s) accepts "YYYY-MM-DD" and "YYYYMMDD", and raises otherwise.
IsoDateOk(s) == s.fmt \in {"ext", "basic"} /\ s.day \in 1..31

fromisoformat(s) == [year |-> 2024, month |-> 7, day |-> s.day]

\* date.isoformat(): always "YYYY-MM-DD".
isoformat(d) == [fmt |-> "ext", day |-> d.day]

(***************************************************************************)
(* The store's primitives.                                                 *)
(***************************************************************************)
\* Index of the first document of coll with the given _id, 0 when there is none.
find_by_id(coll, oid) ==
    IF \E i \in 1..Len(coll) : coll[i]._id = oid
    THEN CHOOSE i \in 1..Len(coll) :
            /\ coll[i]._id = oid
            /\ \A j \in 1..(i - 1) : coll[j]._id # oid
    ELSE 0

\* The booking as the store keeps it: the date is kept as its ISO text.
dump_booking(data) == [data EXCEPT !.booking_date = isoformat(data.booking_date)]

\* create_document(collection, model): insert one document under a fresh id.
create_document(coll, data, oid) == Append(coll, [_id |-> oid] @@ dump_booking(data))

Http(op, status, detail) == [op |-> op, status |-> status, body |-> [detail |-> detail]]

(***************************************************************************)
(* Bootstrap: the demo club and its grid of umbrellas.                     *)
(***************************************************************************)
SeedServices ==
    << [key |-> "towel",  name |-> "Beach Towel",   price |-> 3,  billing |-> "per_day"],
       [key |-> "drinks", name |-> "Welcome Drink", price |-> 5,  billing |-> "per_slot"],
       [key |-> "cabin",  name |-> "Private Cabin", price |-> 12, billing |-> "per_day"] >>

SeedClub(oid) ==
    [ _id |-> oid,
      name |-> "Lido Mare Blu",
      total_reviews |-> 324,
      currency |-> "EUR",
      default_timeslots |-> <<"08:00-12:00", "12:00-16:00", "16:00-20:00", FullDay>>,
      services |-> SeedServices ]

\* Umbrella idx of the grid (row-major, Cols per row), stored under id first + idx - 1.
SeedUmbrella(club_id, first, idx) ==
    LET row == ((idx - 1) \div Cols) + 1
        col == ((idx - 1) % Cols) + 1
    IN  [ _id |-> first + idx - 1,
          club_id |-> StrOid(club_id),
          number |-> idx,
          row |-> row,
          x |-> <<col, 9>>,
          y |-> <<row, 6>>,
          sunbeds_included |-> 2,
          base_price_slot |-> 15 + row * 2,
          base_price_day |-> 45 + row * 5 ]

SeedUmbrellas(club_id, first) ==
    [idx \in 1..(Rows * Cols) |-> SeedUmbrella(club_id, first, idx)]

\* bootstrap without its "if not clubs".
bootstrap_unguarded ==
    /\ beachclub' = Append(beachclub, SeedClub(nextOid))
    /\ umbrella' = umbrella \o SeedUmbrellas(nextOid, nextOid + 1)
    /\ nextOid' = nextOid + 1 + Rows * Cols
    /\ resp' = [op |-> "bootstrap", status |-> 0, body |-> [detail |-> ""]]
    /\ UNCHANGED <<booking, workers>>

bootstrap ==
    /\ IF beachclub = <<>>
       THEN /\ beachclub' = Append(beachclub, SeedClub(nextOid))
            /\ umbrella' = umbrella \o SeedUmbrellas(nextOid, nextOid + 1)
            /\ nextOid' = nextOid + 1 + Rows * Cols
       ELSE UNCHANGED <<beachclub, umbrella, nextOid>>
    /\ resp' = [op |-> "bootstrap", status |-> 0, body |-> [detail |-> ""]]
    /\ UNCHANGED <<booking, workers>>

(***************************************************************************)
(* GET /api/availability                                                   *)
(***************************************************************************)
occupied_ids(booking_date, slot) ==
    { booking[i].umbrella_id : i \in
        { j \in 1..Len(booking) :
            /\ booking[j].booking_date = booking_date
            /\ booking[j].slot = slot
            /\ booking[j].status \in ActiveStatuses } }

availability_run(booking_date, slot) ==
    IF ~IsoDateOk(booking_date)
    THEN Http("availability", 400, "Invalid date format. Use YYYY-MM-DD")
    ELSE IF beachclub = <<>>
    THEN Http("availability", 404, "Club not found")
    ELSE LET club == beachclub[1]
             umbrellas == SelectSeq(umbrella, LAMBDA u : u.club_id = StrOid(club._id))
             occ == occupied_ids(booking_date, slot)
         IN  [ op |-> "availability",
               status |-> 200,
               body |-> [ date |-> booking_date,
                          slot |-> slot,
                          availability |->
                            [i \in 1..Len(umbrellas) |->
                               [ umbrella_id |-> StrOid(umbrellas[i]._id),
                                 number |-> umbrellas[i].number,
                                 status |-> IF StrOid(umbrellas[i]._id) \notin occ
                                            THEN "available" ELSE "occupied" ]] ] ]

(***************************************************************************)
(* POST /api/quote                                                         *)
(***************************************************************************)
\* next((s for s in services if s["key"] == s_key), None): index of the first
\* match, 0 for None.
find_service(services, s_key) ==
    IF \E i \in 1..Len(services) : services[i].key = s_key
    THEN CHOOSE i \in 1..Len(services) :
            /\ services[i].key = s_key
            /\ \A j \in 1..(i - 1) : services[j].key # s_key
    ELSE 0

\* quote_loop with every extra doubled on a full day, whatever its billing.
RECURSIVE quote_loop_double_all(_, _, _, _)
quote_loop_double_all(services, keys, slot, acc) ==
    IF keys = <<>> THEN acc
    ELSE LET s_key == Head(keys)
             k == find_service(services, s_key)
         IN  IF k # 0
             THEN LET svc == services[k]
                      price == IF slot = FullDay THEN svc.price * 2 ELSE svc.price
                  IN  quote_loop_double_all(services, Tail(keys), slot,
                        [ extras |-> Append(acc.extras,
                                       [key |-> s_key, name |-> svc.name, price |-> price]),
                          total |-> acc.total + price ])
             ELSE quote_loop_double_all(services, Tail(keys), slot, acc)

\* quote_loop with the extras listed in the club's order of services.
RECURSIVE quote_loop_club_order(_, _, _, _)
quote_loop_club_order(services, keys, slot, acc) ==
    IF services = <<>> THEN acc
    ELSE LET svc == Head(services)
             price == IF svc.billing = "per_slot" /\ slot = FullDay
                      THEN svc.price * 2 ELSE svc.price
             n == Cardinality({i \in 1..Len(keys) : keys[i] = svc.key})
         IN  IF n > 0
             THEN quote_loop_club_order(Tail(services), keys, slot,
                    [ extras |-> acc.extras \o
                                   [i \in 1..n |->
                                      [key |-> svc.key, name |-> svc.name, price |-> price]],
                      total |-> acc.total + n * price ])
             ELSE quote_loop_club_order(Tail(services), keys, slot, acc)

RECURSIVE quote_loop(_, _, _, _)
quote_loop(services, keys, slot, acc) ==
    IF keys = <<>> THEN acc
    ELSE LET s_key == Head(keys)
             k == find_service(services, s_key)
         IN  IF k # 0
             THEN LET svc == services[k]
                      price == IF svc.billing = "per_slot" /\ slot = FullDay
                               THEN svc.price * 2 ELSE svc.price
                  IN  quote_loop(services, Tail(keys), slot,
                        [ extras |-> Append(acc.extras,
                                       [key |-> s_key, name |-> svc.name, price |-> price]),
                          total |-> acc.total + price ])
             ELSE quote_loop(services, Tail(keys), slot, acc)

\* find_one({"_id": ObjectId(umbrella_id)}) inside its try: index of the umbrella,
\* 0 when the id is no ObjectId or names no umbrella.
find_umbrella_or_first(umbrella_id) ==
    IF ObjectIdOk(umbrella_id) /\ find_by_id(umbrella, ObjectId(umbrella_id)) # 0
    THEN find_by_id(umbrella, ObjectId(umbrella_id))
    ELSE IF umbrella # <<>> THEN 1 ELSE 0

find_umbrella(umbrella_id) ==
    IF ObjectIdOk(umbrella_id) THEN find_by_id(umbrella, ObjectId(umbrella_id)) ELSE 0

\* The two lookups before the try (lines 144-145) are overwritten by the third
\* and are taken to read without effect.  With an umbrella and no club the
\* subscript of find_one({}) at line 158 raises TypeError: a 500.
quote(payload) ==
    LET k == find_umbrella(payload.umbrella_id)
    IN  IF k = 0
        THEN Http("quote", 404, "Umbrella not found")
        ELSE IF beachclub = <<>>
        THEN Http("quote", 500, "TypeError")
        ELSE LET u == umbrella[k]
                 base == IF payload.slot = FullDay
                         THEN u.base_price_day ELSE u.base_price_slot
                 club == beachclub[1]
                 r == quote_loop(club.services, payload.services, payload.slot,
                                 [extras |-> <<>>, total |-> base])
             IN  [ op |-> "quote",
                   status |-> 200,
                   body |-> [base |-> base, extras |-> r.extras, total |-> r.total] ]

(***************************************************************************)
(* POST /api/book                                                          *)
(***************************************************************************)
\* The conflict check: find_one on umbrella_id, booking_date, slot and status.
exists_active(req) ==
    \E i \in 1..Len(booking) :
        /\ booking[i].umbrella_id = req.umbrella_id
        /\ booking[i].booking_date = req.booking_date
        /\ booking[i].slot = req.slot
        /\ booking[i].status \in ActiveStatuses

quote_of(req) ==
    quote([umbrella_id |-> req.umbrella_id, slot |-> req.slot, services |-> req.services])

\* Booking(...): the model instance, once its fields validate.
BookingOk(req, total) == req.guests \in 1..8 /\ total >= 0

\* The Booking left at the schema's default status.
new_booking_pending(req, total) ==
    [ club_id |-> StrOid(beachclub[1]._id),
      umbrella_id |-> req.umbrella_id,
      umbrella_number |-> req.umbrella_number,
      booking_date |-> fromisoformat(req.booking_date),
      slot |-> req.slot,
      guests |-> req.guests,
      services |-> req.services,
      customer_name |-> req.customer_name,
      customer_email |-> req.customer_email,
      total_amount |-> total,
      status |-> "pending" ]

new_booking(req, total) ==
    [ club_id |-> StrOid(beachclub[1]._id),
      umbrella_id |-> req.umbrella_id,
      umbrella_number |-> req.umbrella_number,
      booking_date |-> fromisoformat(req.booking_date),
      slot |-> req.slot,
      guests |-> req.guests,
      services |-> req.services,
      customer_name |-> req.customer_name,
      customer_email |-> req.customer_email,
      total_amount |-> total,
      status |-> "confirmed" ]

\* persist with the document inserted before the Booking's fields are validated.
persist_insert_first(req, q) ==
    LET fail(detail) ==
            [ resp |-> Http("book", 500, detail), booking |-> booking, nextOid |-> nextOid ]
    IN  IF beachclub = <<>> THEN fail("TypeError")
        ELSE IF ~IsoDateOk(req.booking_date) THEN fail("ValueError")
        ELSE IF ~BookingOk(req, q.body.total)
        THEN [ resp |-> Http("book", 500, "ValidationError"),
               booking |-> create_document(booking, new_booking(req, q.body.total), nextOid),
               nextOid |-> nextOid + 1 ]
        ELSE [ resp |-> [ op |-> "book",
                          status |-> 200,
                          body |-> [ booking_id |-> StrOid(nextOid),
                                     status |-> "confirmed",
                                     quote |-> q.body ] ],
               booking |-> create_document(booking, new_booking(req, q.body.total), nextOid),
               nextOid |-> nextOid + 1 ]

\* Everything after the quote: build the Booking, insert it, answer.
\* Gives the response, the booking collection and the id counter afterwards.
persist(req, q) ==
    LET fail(detail) ==
            [ resp |-> Http("book", 500, detail), booking |-> booking, nextOid |-> nextOid ]
    IN  IF beachclub = <<>> THEN fail("TypeError")
        ELSE IF ~IsoDateOk(req.booking_date) THEN fail("ValueError")
        ELSE IF ~BookingOk(req, q.body.total) THEN fail("ValidationError")
        ELSE [ resp |-> [ op |-> "book",
                          status |-> 200,
                          body |-> [ booking_id |-> StrOid(nextOid),
                                     status |-> "confirmed",
                                     quote |-> q.body ] ],
               booking |-> create_document(booking, new_booking(req, q.body.total), nextOid),
               nextOid |-> nextOid + 1 ]

\* The whole handler, run without interruption.
book(req) ==
    IF exists_active(req)
    THEN [ resp |-> Http("book", 409, "Umbrella already booked for selected time"),
           booking |-> booking, nextOid |-> nextOid ]
    ELSE LET q == quote_of(req)
         IN  IF q.status # 200
             THEN [ resp |-> [q EXCEPT !.op = "book"],
                    booking |-> booking, nextOid |-> nextOid ]
             ELSE persist(req, q)

(***************************************************************************)
(* Requests.                                                               *)
(***************************************************************************)
HexLower(oid) == [kind |-> "hex", oid |-> oid, upper |-> FALSE]

HexUpper(oid) == [kind |-> "hex", oid |-> oid, upper |-> TRUE]

NotAnId == [kind |-> "text", oid |-> 0, upper |-> FALSE]

\* Umbrella number 1 in both spellings of its id.
GoodIds == {HexLower(2), HexUpper(2)}

\* An id of no document, and a string that is no ObjectId.
BadIds == {HexLower(99), NotAnId}

\* Umbrellas number 1, 9, 17 and 25: one of each row.
QuoteIds == GoodIds \cup BadIds \cup {HexLower(10), HexLower(18), HexLower(26)}

\* "2024-07-01", "20240701" and "2024-07-02".
IsoDates ==
    {[fmt |-> "ext", day |-> 1], [fmt |-> "basic", day |-> 1], [fmt |-> "ext", day |-> 2]}

\* "tomorrow"
NotADate == [fmt |-> "text", day |-> 0]

DateStrings == IsoDates \cup {NotADate}

Slots == {FullDay, "08:00-12:00"}

QuoteSlots == Slots \cup {"12:00-16:00"}

\* "spa" is a key the club does not offer.
ServiceKeys == {"towel", "drinks", "cabin", "spa"}

RECURSIVE SeqsUpTo(_, _)
SeqsUpTo(S, n) ==
    IF n = 0 THEN {<<>>}
    ELSE LET shorter == SeqsUpTo(S, n - 1)
         IN  shorter \cup {Append(q, x) : q \in shorter, x \in S}

QuotePayloads ==
    [umbrella_id : QuoteIds, slot : QuoteSlots, services : SeqsUpTo(ServiceKeys, MaxServices)]

\* The payloads the quote handler is sent between bookings.
FewPayloads ==
    [umbrella_id : {HexLower(2), HexLower(99), NotAnId}, slot : {FullDay}, services : {<<>>}]

Requests(ids, dates, slots, guests, services) ==
    [ umbrella_id : ids,
      umbrella_number : {1},
      booking_date : dates,
      slot : slots,
      guests : guests,
      services : services,
      customer_name : {"Ada"},
      customer_email : {"ada@example.com"} ]

\* Well-formed requests for umbrella 1, and requests with one thing wrong each:
\* the umbrella id, the date, the number of guests.
BookingRequests ==
    Requests(GoodIds, IsoDates, Slots, {2}, {<<>>, <<"drinks", "spa">>})
      \cup Requests(BadIds, {[fmt |-> "ext", day |-> 1]}, Slots, {2}, {<<>>})
      \cup Requests({HexLower(2)}, {NotADate}, {FullDay}, {2}, {<<>>})
      \cup Requests({HexLower(2)}, {[fmt |-> "ext", day |-> 1]}, {FullDay}, {0, 9}, {<<>>})

\* Requests in one spelling only, so that two of them for the same umbrella, date
\* and slot are the same request.
RaceRequests ==
    Requests({HexLower(2), HexLower(99)},
             {[fmt |-> "ext", day |-> 1], NotADate}, Slots, {2, 9}, {<<>>})

Procs == {"w1", "w2"}

NoRequest == CHOOSE r \in RaceRequests : TRUE

NoQuote == Http("quote", 0, "")

(***************************************************************************)
(* The handlers as actions, each run as a whole.                           *)
(***************************************************************************)
create_booking(req) ==
    LET r == book(req)
    IN  /\ Len(r.booking) <= MaxBookings
        /\ resp' = r.resp
        /\ booking' = r.booking
        /\ nextOid' = r.nextOid
        /\ UNCHANGED <<beachclub, umbrella, workers>>

availability(booking_date, slot) ==
    /\ resp' = availability_run(booking_date, slot)
    /\ UNCHANGED <<store, workers>>

get_quote(payload) ==
    /\ resp' = quote(payload)
    /\ UNCHANGED <<store, workers>>

(***************************************************************************)
(* create_booking store operation by store operation, for requests served  *)
(* by several workers over the one store.                                  *)
(***************************************************************************)
InFlight == Cardinality({p \in Procs : pc[p] # "idle"})

Release(p) ==
    /\ pc' = [pc EXCEPT ![p] = "idle"]
    /\ preq' = [preq EXCEPT ![p] = NoRequest]
    /\ pquote' = [pquote EXCEPT ![p] = NoQuote]

book_check(p, req) ==
    /\ pc[p] = "idle"
    /\ Len(booking) + InFlight < MaxBookings
    /\ IF exists_active(req)
       THEN /\ resp' = Http("book", 409, "Umbrella already booked for selected time")
            /\ UNCHANGED workers
       ELSE /\ pc' = [pc EXCEPT ![p] = "checked"]
            /\ preq' = [preq EXCEPT ![p] = req]
            /\ UNCHANGED <<resp, pquote>>
    /\ UNCHANGED store

book_quote(p) ==
    /\ pc[p] = "checked"
    /\ LET q == quote_of(preq[p])
       IN  IF q.status # 200
           THEN /\ resp' = [q EXCEPT !.op = "book"]
                /\ Release(p)
           ELSE /\ pc' = [pc EXCEPT ![p] = "quoted"]
                /\ pquote' = [pquote EXCEPT ![p] = q]
                /\ UNCHANGED <<resp, preq>>
    /\ UNCHANGED store

\* book_persist as a conditional insert: the conflict check is made again.
book_persist_recheck(p) ==
    /\ pc[p] = "quoted"
    /\ IF exists_active(preq[p])
       THEN /\ resp' = Http("book", 409, "Umbrella already booked for selected time")
            /\ UNCHANGED <<booking, nextOid>>
       ELSE LET r == persist(preq[p], pquote[p])
            IN  /\ resp' = r.resp
                /\ booking' = r.booking
                /\ nextOid' = r.nextOid
    /\ Release(p)
    /\ UNCHANGED <<beachclub, umbrella>>

book_persist(p) ==
    /\ pc[p] = "quoted"
    /\ LET r == persist(preq[p], pquote[p])
       IN  /\ resp' = r.resp
           /\ booking' = r.booking
           /\ nextOid' = r.nextOid
    /\ Release(p)
    /\ UNCHANGED <<beachclub, umbrella>>

(***************************************************************************)
(* Specifications.                                                         *)
(***************************************************************************)
NoResponse == [op |-> "none", status |-> 0, body |-> [detail |-> ""]]

IdleWorkers ==
    /\ pc = [p \in Procs |-> "idle"]
    /\ preq = [p \in Procs |-> NoRequest]
    /\ pquote = [p \in Procs |-> NoQuote]

\* An empty store, before the startup hook has run.
Init ==
    /\ beachclub = <<>>
    /\ umbrella = <<>>
    /\ booking = <<>>
    /\ nextOid = 1
    /\ resp = NoResponse
    /\ IdleWorkers

\* The store as the startup hook leaves it.
InitSeeded ==
    /\ beachclub = <<SeedClub(1)>>
    /\ umbrella = SeedUmbrellas(1, 2)
    /\ booking = <<>>
    /\ nextOid = 2 + Rows * Cols
    /\ resp = NoResponse
    /\ IdleWorkers

\* Requests handled one at a time.
Next ==
    \/ bootstrap
    \/ \E req \in BookingRequests : create_booking(req)
    \/ \E d \in DateStrings, s \in Slots : availability(d, s)
    \/ \E payload \in FewPayloads : get_quote(payload)

Spec == Init /\ [][Next]_vars

\* The pricing engine alone.
NextQuote ==
    \/ bootstrap
    \/ \E payload \in QuotePayloads : get_quote(payload)

SpecQuote == Init /\ [][NextQuote]_vars

\* Two workers, their store operations interleaved.
NextRace ==
    \/ \E p \in Procs, req \in RaceRequests : book_check(p, req)
    \/ \E p \in Procs : book_quote(p)
    \/ \E p \in Procs : book_persist(p)

SpecRace == InitSeeded /\ [][NextRace]_vars

(***************************************************************************)
(* Properties.                                                             *)
(***************************************************************************)
Active(b) == b.status \in ActiveStatuses

\* The umbrella document an id string names, if any.
Resolves(umbrella_id) ==
    ObjectIdOk(umbrella_id) /\ \E i \in 1..Len(umbrella) : umbrella[i]._id = ObjectId(umbrella_id)

\* Stored booking b is for the umbrella, the calendar date and the slot given.
BookedFor(b, oid, date, slot) ==
    /\ ObjectIdOk(b.umbrella_id) /\ ObjectId(b.umbrella_id) = oid
    /\ IsoDateOk(b.booking_date) /\ fromisoformat(b.booking_date) = date
    /\ b.slot = slot

RECURSIVE SumPrices(_)
SumPrices(extras) ==
    IF extras = <<>> THEN 0 ELSE Head(extras).price + SumPrices(Tail(extras))

Offered(key) == \E i \in 1..Len(beachclub[1].services) : beachclub[1].services[i].key = key

\* The price the claim gives a matched service in a slot.
Charged(svc, slot) ==
    IF svc.billing = "per_slot" /\ slot = FullDay THEN 2 * svc.price ELSE svc.price

Seeded ==
    /\ Len(beachclub) = 1
    /\ Len(umbrella) = 32
    /\ \A n \in 1..32 : umbrella[n].number = n

\* C6: once bootstrap has run, however often, the store holds one club and the
\* 32 umbrellas numbered 1..32; a run that finds a club changes nothing.
C6_SeedIdempotent ==
    /\ [](beachclub # <<>> => Seeded)
    /\ [][resp'.op = "bootstrap" =>
            /\ Seeded'
            /\ beachclub # <<>> => UNCHANGED store]_vars

C6_Witness == resp.op = "bootstrap" /\ Seeded /\ booking # <<>>

\* Every id and slot, with at most one service asked for.
LookupPayloads ==
    [umbrella_id : QuoteIds, slot : QuoteSlots, services : SeqsUpTo(ServiceKeys, 1)]

C10_FailureInsertsNothing ==
    [][(resp'.op = "book" /\ resp'.status # 200) => booking' = booking]_vars

\* C10 witness: a booking refused for its number of guests, after another was made.
C10_Witness ==
    /\ resp.op = "book" /\ resp.status = 500 /\ resp.body.detail = "ValidationError"
    /\ booking # <<>>

====
